---- MODULE Spec2Model ----
(***************************************************************************)
(* Model of lib/index.js (http-graceful-shutdown): the connection table,   *)
(* the isShuttingDown flag, the request/connection event handlers, the     *)
(* shutdown sequence and the callback-then-exit finalizer.                 *)
(*                                                                         *)
(* Each action is one JavaScript event-loop callback run to completion.    *)
(* process.exit(1) ends the process: once exited is TRUE no handler runs.  *)
(*                                                                         *)
(* The http server and the sockets are the environment:                    *)
(*  - 'request' is emitted for each request parsed on an open socket, also *)
(*    while earlier responses of that socket are outstanding (pipelining); *)
(*    inflight counts the request/response cycles in progress;             *)
(*  - 'finish' is emitted once per response, possibly after the socket was *)
(*    destroyed or closed;                                                 *)
(*  - 'close' is emitted once per socket, after a destroy or when the peer *)
(*    closes; no 'connection' is emitted after server.close();             *)
(*  - the server.close callback runs once every socket has closed.         *)
(***************************************************************************)
EXTENDS Integers, Sequences, FiniteSets, TLC

\* ------------------------------------------------------------------ bounds
MaxConns == 2        \* sockets the listener accepts in one run
MaxInflight == 2     \* request/response cycles in progress on one socket
MaxTriggers == 2     \* termination signals delivered in one run

SocketIds == 0 .. (MaxConns - 1)
Signals == {"SIGINT", "SIGTERM"}
CallbackKinds == {"none", "sync", "promise"}
Outcomes == {"fulfilled", "rejected"}

VARIABLES
    options,            \* [development, callback] after _.defaults
    isShuttingDown,     \* module-level flag
    connections,        \* keys of the module-level connections table
    connectionCounter,  \* module-level id counter
    sockets,            \* socket objects: transport state and tagged fields
    serverCloseCalls,   \* number of server.close(cb) calls
    closeDelivered,     \* the server.close completion callback has run
    timersArmed,        \* number of setTimeout calls of shutdown
    timerFired,         \* the forced-shutdown timer callback has run
    counter,            \* local counter of the shutdown sweep (debug output)
    sweeps,             \* number of sweeps over Object.keys(connections)
    triggers,           \* signals delivered so far
    calls,              \* call sites of handleCallbackThenExit, in order
    cbCalls,            \* invocations of options.callback
    pending,            \* promises returned by the callback and not settled
    exited,             \* process.exit has been called
    exitStatus,         \* status passed to process.exit
    exitErr             \* the err argument of the exit() that ended the run

finalVars == <<calls, cbCalls, pending, exited, exitStatus, exitErr>>
drainVars == <<isShuttingDown, connections, sockets, serverCloseCalls,
               timersArmed, counter, sweeps>>
vars == <<options, isShuttingDown, connections, connectionCounter, sockets,
          serverCloseCalls, closeDelivered, timersArmed, timerFired, counter,
          sweeps, triggers, calls, cbCalls, pending, exited, exitStatus,
          exitErr>>

\* a socket object; reapedAt is the call site of the first socket.destroy()
NoSocket == [state |-> "none", isIdle |-> FALSE, inflight |-> 0,
             destroyCalls |-> 0, reapedAt |-> "none"]

TypeOK ==
    /\ options \in [development : BOOLEAN, callback : CallbackKinds]
    /\ isShuttingDown \in BOOLEAN
    /\ connections \subseteq SocketIds
    /\ connectionCounter \in 0 .. MaxConns
    /\ \A s \in SocketIds :
          /\ sockets[s].state \in {"none", "open", "destroyed", "closed"}
          /\ sockets[s].isIdle \in BOOLEAN
          /\ sockets[s].inflight \in 0 .. MaxInflight
          /\ sockets[s].destroyCalls \in Nat
          /\ sockets[s].reapedAt \in {"none", "sweep", "finish"}
    /\ exited \in BOOLEAN

Init ==
    /\ options \in [development : BOOLEAN, callback : CallbackKinds]
    /\ isShuttingDown = FALSE
    /\ connections = {}
    /\ connectionCounter = 0
    /\ sockets = [s \in SocketIds |-> NoSocket]
    /\ serverCloseCalls = 0
    /\ closeDelivered = FALSE
    /\ timersArmed = 0
    /\ timerFired = FALSE
    /\ counter = 0
    /\ sweeps = 0
    /\ triggers = 0
    /\ calls = << >>
    /\ cbCalls = 0
    /\ pending = 0
    /\ exited = FALSE
    /\ exitStatus = 0
    /\ exitErr = "none"

\* ------------------------------------------------------------ the finalizer

\* variant: a run without error reports success
exitStatusByErr(err) == IF err = "err" THEN 1 ELSE 0

\* process.exit(1): the status does not depend on err
exitStatusFor(err) == 1

\* function exit(err)
exit(err) ==
    /\ exited' = TRUE
    /\ exitStatus' = exitStatusFor(err)
    /\ exitErr' = err

\* maybePromise && typeof maybePromise.then == "function"
isThenable(kind) == kind = "promise"

\* function handleCallbackThenExit(), called from the call site `site`
handleCallbackThenExit(site) ==
    /\ calls' = Append(calls, site)
    /\ IF options.callback # "none"
         THEN /\ cbCalls' = cbCalls + 1
              /\ IF isThenable(options.callback)
                   THEN /\ pending' = pending + 1
                        /\ UNCHANGED <<exited, exitStatus, exitErr>>
                   ELSE /\ pending' = pending
                        /\ exit("none")
         ELSE /\ UNCHANGED <<cbCalls, pending>>
              /\ exit("none")

\* variant: then() is given no rejection handler
onSettledFulfilOnly(outcome) ==
    IF outcome = "rejected" THEN UNCHANGED <<exited, exitStatus, exitErr>>
    ELSE exit("none")

\* the two handlers given to maybePromise.then
onSettled(outcome) == exit(IF outcome = "rejected" THEN "err" ELSE "none")

\* maybePromise.then(function() { exit() }, function (err) { exit(err) })
PromiseSettle(outcome) ==
    /\ ~exited
    /\ pending > 0
    /\ pending' = pending - 1
    /\ onSettled(outcome)
    /\ UNCHANGED <<options, isShuttingDown, connections, connectionCounter,
                   sockets, serverCloseCalls, closeDelivered, timersArmed,
                   timerFired, counter, sweeps, triggers, calls, cbCalls>>

\* ------------------------------------------------------ registry and reaper

\* variant: the flag isShuttingDown is not consulted
destroyGuardIdleOnly(sock, shuttingDown) == sock.isIdle

\* the condition of destroy(socket)
destroyGuard(sock, shuttingDown) == sock.isIdle /\ shuttingDown

\* socket.destroy() of the transport: the socket stops, 'close' follows later
socketDestroy(sock, site) ==
    [sock EXCEPT !.state = IF @ = "open" THEN "destroyed" ELSE @,
                 !.destroyCalls = @ + 1,
                 !.reapedAt = IF @ = "none" THEN site ELSE @]

\* variant: the entry is deleted but socket.destroy() is not called
destroySocketSkipped(sock, shuttingDown, site) == sock

\* function destroy(socket), called from `site`: the socket object afterwards
destroySocket(sock, shuttingDown, site) ==
    IF destroyGuard(sock, shuttingDown) THEN socketDestroy(sock, site)
    ELSE sock

\* variant: socket.destroy() is called but the entry is not deleted
destroyKeysKept(conns, id, sock, shuttingDown) == conns

\* function destroy(socket): the connections table afterwards
destroyKeys(conns, id, sock, shuttingDown) ==
    IF destroyGuard(sock, shuttingDown) THEN conns \ {id} ELSE conns

\* server.on('connection')
Connection ==
    /\ ~exited
    /\ serverCloseCalls = 0
    /\ connectionCounter < MaxConns
    /\ LET id == connectionCounter IN
         /\ connectionCounter' = connectionCounter + 1
         /\ sockets' = [sockets EXCEPT ![id] =
                          [state |-> "open", isIdle |-> TRUE, inflight |-> 0,
                           destroyCalls |-> 0, reapedAt |-> "none"]]
         /\ connections' = connections \cup {id}
    /\ UNCHANGED <<options, isShuttingDown, serverCloseCalls, closeDelivered,
                   timersArmed, timerFired, counter, sweeps, triggers>>
    /\ UNCHANGED finalVars

\* server.on('request'): a request arrives on an open socket
Request(s) ==
    /\ ~exited
    /\ sockets[s].state = "open"
    /\ sockets[s].inflight < MaxInflight
    /\ sockets' = [sockets EXCEPT ![s].isIdle = FALSE,
                                  ![s].inflight = @ + 1]
    /\ UNCHANGED <<options, isShuttingDown, connections, connectionCounter,
                   serverCloseCalls, closeDelivered, timersArmed, timerFired,
                   counter, sweeps, triggers>>
    /\ UNCHANGED finalVars

\* res.on('finish'): one response of socket s has been handed off
Finish(s) ==
    /\ ~exited
    /\ sockets[s].inflight > 0
    /\ LET marked == [sockets[s] EXCEPT !.isIdle = TRUE, !.inflight = @ - 1] IN
         /\ sockets' = [sockets EXCEPT ![s] =
                          destroySocket(marked, isShuttingDown, "finish")]
         /\ connections' = destroyKeys(connections, s, marked, isShuttingDown)
    /\ UNCHANGED <<options, isShuttingDown, connectionCounter,
                   serverCloseCalls, closeDelivered, timersArmed, timerFired,
                   counter, sweeps, triggers>>
    /\ UNCHANGED finalVars

\* variant: no close handler removes the table entry
SocketCloseKept(s) ==
    /\ ~exited
    /\ sockets[s].state \in {"open", "destroyed"}
    /\ sockets' = [sockets EXCEPT ![s].state = "closed"]
    /\ UNCHANGED <<options, isShuttingDown, connections, connectionCounter,
                   serverCloseCalls, closeDelivered, timersArmed, timerFired,
                   counter, sweeps, triggers>>
    /\ UNCHANGED finalVars

\* socket.on('close'): the peer closed the socket, or a destroy completed
SocketClose(s) ==
    /\ ~exited
    /\ sockets[s].state \in {"open", "destroyed"}
    /\ sockets' = [sockets EXCEPT ![s].state = "closed"]
    /\ connections' = connections \ {s}
    /\ UNCHANGED <<options, isShuttingDown, connectionCounter,
                   serverCloseCalls, closeDelivered, timersArmed, timerFired,
                   counter, sweeps, triggers>>
    /\ UNCHANGED finalVars

\* ------------------------------------------------------------------ shutdown

\* variant: the development shortcut is taken in every mode
isDevelopmentAlways == TRUE

\* if (options.development)
isDevelopment == options.development

\* variant: the sweep visits every socket ever accepted, not the table keys
sweepSocketsAll(socks, conns, shuttingDown) ==
    [s \in SocketIds |->
        IF socks[s].state # "none"
        THEN destroySocket(socks[s], shuttingDown, "sweep")
        ELSE socks[s]]

\* Object.keys(connections).forEach(... destroy(connections[key]) ...)
sweepSockets(socks, conns, shuttingDown) ==
    [s \in SocketIds |->
        IF s \in conns THEN destroySocket(socks[s], shuttingDown, "sweep")
        ELSE socks[s]]

\* variant: the sweep destroys sockets but keeps their table entries
sweepKeysKept(socks, conns, shuttingDown) == conns

sweepKeys(socks, conns, shuttingDown) ==
    {s \in conns : ~destroyGuard(socks[s], shuttingDown)}

\* counter++ once per key
sweepCounter(conns) == Cardinality(conns)

\* variant: no forced-shutdown timer is set
armTimerNever(n) == n

\* setTimeout(..., options.timeout).unref()
armTimer(n) == n + 1

\* the body of if (!isShuttingDown) { ... }
drain ==
    /\ isShuttingDown' = TRUE
    /\ serverCloseCalls' = serverCloseCalls + 1
    /\ sockets' = sweepSockets(sockets, connections, TRUE)
    /\ connections' = sweepKeys(sockets, connections, TRUE)
    /\ counter' = sweepCounter(connections)
    /\ sweeps' = sweeps + 1
    /\ timersArmed' = armTimer(timersArmed)

\* process.on(signal, function () { shutdown(signal) })
shutdown(sig) ==
    /\ ~exited
    /\ triggers < MaxTriggers
    /\ triggers' = triggers + 1
    /\ IF isDevelopment THEN handleCallbackThenExit("dev")
                        ELSE UNCHANGED finalVars
    /\ IF ~exited' /\ ~isShuttingDown THEN drain ELSE UNCHANGED drainVars
    /\ UNCHANGED <<options, connectionCounter, closeDelivered, timerFired>>

\* variant: the close completion resets the flag
ListenerClosedResets ==
    /\ ~exited
    /\ serverCloseCalls > 0
    /\ ~closeDelivered
    /\ \A s \in SocketIds : sockets[s].state \in {"none", "closed"}
    /\ closeDelivered' = TRUE
    /\ isShuttingDown' = FALSE
    /\ handleCallbackThenExit("close")
    /\ UNCHANGED <<options, connections, connectionCounter,
                   sockets, serverCloseCalls, timersArmed, timerFired,
                   counter, sweeps, triggers>>

\* the callback given to server.close: every socket of the server has closed
ListenerClosed ==
    /\ ~exited
    /\ serverCloseCalls > 0
    /\ ~closeDelivered
    /\ \A s \in SocketIds : sockets[s].state \in {"none", "closed"}
    /\ closeDelivered' = TRUE
    /\ handleCallbackThenExit("close")
    /\ UNCHANGED <<options, isShuttingDown, connections, connectionCounter,
                   sockets, serverCloseCalls, timersArmed, timerFired,
                   counter, sweeps, triggers>>

\* the setTimeout callback
TimerFire ==
    /\ ~exited
    /\ timersArmed > 0
    /\ ~timerFired
    /\ timerFired' = TRUE
    /\ handleCallbackThenExit("timer")
    /\ UNCHANGED <<options, isShuttingDown, connections, connectionCounter,
                   sockets, serverCloseCalls, closeDelivered, timersArmed,
                   counter, sweeps, triggers>>

Next ==
    \/ Connection
    \/ \E s \in SocketIds : Request(s)
    \/ \E s \in SocketIds : Finish(s)
    \/ \E s \in SocketIds : SocketClose(s)
    \/ \E sig \in Signals : shutdown(sig)
    \/ ListenerClosed
    \/ TimerFire
    \/ \E outcome \in Outcomes : PromiseSettle(outcome)

Spec == Init /\ [][Next]_vars

\* the timer callback is run by the event loop once the timer is due
FairSpec == Spec /\ WF_vars(TimerFire)


\* ------------------------------------------------------------ properties

Count(seq, x) == Cardinality({i \in 1 .. Len(seq) : seq[i] = x})
Finalized == calls # << >>

\* C1: outside development mode handleCallbackThenExit is entered only from
\* the server.close callback or from the timer callback, and while the timer
\* has not fired it is not entered with a registered socket that still has a
\* request in progress.
C1_FinalizeOnlyOnCloseOrTimer ==
    ~options.development =>
        /\ \A i \in 1 .. Len(calls) : calls[i] \in {"close", "timer"}
        /\ (Finalized /\ ~timerFired) =>
              /\ calls[1] = "close"
              /\ \A s \in connections : sockets[s].inflight = 0
              /\ \A s \in SocketIds : sockets[s].state \in {"none", "closed"}

\* C1 witness: finalization started by the listener's close completion after
\* a socket that carried a request was reaped, the timer not having fired.
C1_Witness ==
    /\ ~options.development
    /\ calls = <<"close">>
    /\ ~timerFired
    /\ \E s \in SocketIds : sockets[s].reapedAt = "finish"

\* C2: whenever socket.destroy() is called on a socket, by the sweep or on
\* finish, no request/response cycle is in progress on that socket.
C2_DestroyOnlyWhenNoRequest ==
    [][\A s \in SocketIds :
          sockets'[s].destroyCalls > sockets[s].destroyCalls
              => sockets'[s].inflight = 0]_vars

\* C3: outside development mode, once both the server.close callback and the
\* timer callback have run, a configured callback has been invoked exactly
\* once and the finalizer has been entered once.
C3_CallbackOnce ==
    (~options.development /\ closeDelivered /\ timerFired)
        => (Len(calls) = 1 /\ (options.callback # "none" => cbCalls = 1))

\* C4: however many signals arrive, in every mode, server.close is called at
\* most once, the sweep runs at most once, the timer is set at most once and
\* the finalizer is entered at most once from the signal handler.
C4_OnlyFirstTrigger ==
    /\ serverCloseCalls <= 1
    /\ sweeps <= 1
    /\ timersArmed <= 1
    /\ Count(calls, "dev") <= 1

\* C5: outside development mode, once shutdown has started the finalizer is
\* eventually entered, also when a socket stays busy for ever and the
\* server.close callback never runs.
C5_EventuallyFinalized ==
    (~options.development /\ isShuttingDown) ~> Finalized

\* C5 witness: the finalizer was entered from the timer while a registered
\* socket was still busy and the listener had not reported closed.
C5_Witness ==
    /\ ~options.development
    /\ calls = <<"timer">>
    /\ ~closeDelivered
    /\ \E s \in connections :
          sockets[s].state = "open" /\ sockets[s].inflight > 0

\* C6: outside development mode, the first signal arriving when every
\* registered socket is idle destroys all of them and empties the table in
\* that step; no socket is left open, so the listener's close completion
\* waits only for the close events of the destroyed sockets.
C6_AllIdleSweep ==
    [][(/\ ~options.development
        /\ ~isShuttingDown /\ isShuttingDown'
        /\ \A s \in connections : sockets[s].isIdle)
       => (/\ connections' = {}
           /\ \A s \in connections :
                 /\ sockets'[s].destroyCalls = sockets[s].destroyCalls + 1
                 /\ sockets'[s].state = "destroyed"
           /\ \A s \in SocketIds : sockets'[s].state # "open")]_vars

\* C6 witness: every accepted socket was reaped by the sweep and the
\* finalizer was then entered from the server.close callback, no timer fired.
C6_Witness ==
    /\ ~options.development
    /\ connectionCounter >= 1
    /\ counter = connectionCounter
    /\ \A s \in 0 .. (connectionCounter - 1) : sockets[s].reapedAt = "sweep"
    /\ calls = <<"close">>
    /\ ~timerFired

\* C7: while shutting down, a finish event on a registered busy socket marks
\* it idle, calls socket.destroy() on it and removes it from the table in the
\* same step.
C7_ReapOnFinish ==
    [][\A s \in SocketIds :
          (/\ isShuttingDown
           /\ s \in connections
           /\ ~sockets[s].isIdle
           /\ sockets'[s].inflight < sockets[s].inflight)
          => (/\ sockets'[s].isIdle
              /\ sockets'[s].destroyCalls = sockets[s].destroyCalls + 1
              /\ sockets'[s].state = "destroyed"
              /\ s \notin connections')]_vars

\* C7 witness: a socket that was busy at the sweep has been reaped on finish
\* before the timer fired.
C7_Witness ==
    /\ isShuttingDown
    /\ ~timerFired
    /\ \E s \in SocketIds :
          /\ sockets[s].reapedAt = "finish"
          /\ sockets[s].state = "destroyed"
          /\ sockets[s].isIdle
          /\ s \notin connections

\* C8: in development mode no draining step is performed, whatever the
\* callback: no server.close, no socket.destroy(), no sweep, no timer.
C8_DevSkipsDrain ==
    options.development =>
        /\ serverCloseCalls = 0
        /\ sweeps = 0
        /\ timersArmed = 0
        /\ ~isShuttingDown
        /\ \A s \in SocketIds : sockets[s].destroyCalls = 0

\* C9: whenever the process has been exited, the exit status is 1.
C9_ExitStatusOne == exited => exitStatus = 1

\* C9 witness: an exit reached through the rejection handler of the promise.
C9_Witness == exited /\ exitErr = "err" /\ exitStatus = 1

\* C10: with a callback configured, the process has not exited before the
\* callback was invoked, nor while a promise returned by an invocation of the
\* callback is still pending.
C10_ExitAfterCallback ==
    (options.callback # "none" /\ exited) => (cbCalls >= 1 /\ pending = 0)

\* C11: every settlement of a promise returned by the callback, rejection
\* included, exits the process in the same step with status 1; no state has
\* a captured rejection without the exit.
C11_RejectionExits ==
    [][pending' < pending => (exited' /\ exitStatus' = 1)]_vars

\* C11 witness: the only promise returned by the callback rejected and the
\* process has exited with status 1.
C11_Witness ==
    /\ cbCalls = 1
    /\ pending = 0
    /\ exitErr = "err"
    /\ exited
    /\ exitStatus = 1

\* C12: for every registered socket, the idle flag is true exactly when no
\* request/response cycle is in progress on it.
C12_IdleIffNoRequest ==
    \A s \in connections : sockets[s].isIdle <=> (sockets[s].inflight = 0)

\* C13: the table holds exactly the sockets that were accepted and have been
\* neither closed nor reaped, each under the id it was given at accept time,
\* which is below the counter and so differs from every id given later.
C13_RegistryExact ==
    /\ connections = {s \in SocketIds : sockets[s].state = "open"}
    /\ \A s \in connections : s < connectionCounter
    /\ \A s \in SocketIds : (sockets[s].state # "none") <=> (s < connectionCounter)

\* C13 witness: of two accepted sockets one was closed by its peer and is
\* gone from the table, the other is open and registered.
C13_Witness ==
    /\ connectionCounter >= 2
    /\ \E s, t \in SocketIds :
          /\ sockets[s].state = "closed" /\ sockets[s].destroyCalls = 0
          /\ s \notin connections
          /\ sockets[t].state = "open" /\ t \in connections

\* C14: in a step that starts and ends with isShuttingDown false no socket is
\* destroyed, a table entry disappears only with the close event of its
\* socket, and a finish event changes nothing but the idle flag (and the
\* cycle count) of its own socket.
C14_NoReapBeforeTrigger ==
    [][(~isShuttingDown /\ ~isShuttingDown') =>
          /\ \A s \in SocketIds :
                sockets'[s].destroyCalls = sockets[s].destroyCalls
          /\ \A s \in connections \ connections' :
                sockets[s].state = "open" /\ sockets'[s].state = "closed"
          /\ \A s \in SocketIds :
                sockets'[s].inflight < sockets[s].inflight =>
                   /\ connections' = connections
                   /\ sockets' = [sockets EXCEPT ![s].isIdle = TRUE,
                                                 ![s].inflight = @ - 1]]_vars

\* C14 witness: before any signal a response finished on a registered socket
\* (its flag is idle again although a later request is still open) and the
\* socket is untouched and still registered.
C14_Witness ==
    /\ ~isShuttingDown
    /\ triggers = 0
    /\ \E s \in connections :
          /\ sockets[s].isIdle
          /\ sockets[s].inflight = 1
          /\ sockets[s].state = "open"
          /\ sockets[s].destroyCalls = 0

\* C15: socket.destroy() is called only on a socket that is in the table, is
\* open and has not been destroyed before.
C15_DestroyOnlyRegistered ==
    [][\A s \in SocketIds :
          sockets'[s].destroyCalls > sockets[s].destroyCalls =>
             /\ s \in connections
             /\ sockets[s].state = "open"
             /\ sockets[s].destroyCalls = 0]_vars

\* C15 as amended: a call of socket.destroy() either reaps a registered open
\* socket for the first time and removes its entry in the same step, or it
\* is made by the finish handler on a socket already destroyed or closed and
\* then changes neither the state of that socket nor the table; the sweep
\* only makes calls of the first kind.
C15_DestroyRegisteredOrNoop ==
    [][\A s \in SocketIds :
          sockets'[s].destroyCalls > sockets[s].destroyCalls =>
             \/ /\ s \in connections
                /\ sockets[s].state = "open"
                /\ sockets[s].destroyCalls = 0
                /\ sockets'[s].state = "destroyed"
                /\ s \notin connections'
             \/ /\ s \notin connections
                /\ sockets[s].state \in {"destroyed", "closed"}
                /\ sockets'[s].inflight < sockets[s].inflight
                /\ sockets'[s].state = sockets[s].state
                /\ connections' = connections]_vars

\* C15 witness: a socket outside the table on which socket.destroy() was
\* called again by a later finish event.
C15_Witness ==
    \E s \in SocketIds :
       /\ sockets[s].destroyCalls >= 2
       /\ sockets[s].state \in {"destroyed", "closed"}
       /\ s \notin connections

\* C16: isShuttingDown is false initially, is set only by the handling of a
\* signal, and once true stays true in every later step.
C16_FlagOneWay ==
    [][/\ isShuttingDown => isShuttingDown'
       /\ (~isShuttingDown /\ isShuttingDown') => triggers' = triggers + 1
      ]_vars

\* C16 witness: the flag is still true after a second signal, the close
\* completion of the listener, the timer and a reap on finish.
C16_Witness ==
    /\ isShuttingDown
    /\ triggers >= 2
    /\ closeDelivered
    /\ timerFired
    /\ \E s \in SocketIds : sockets[s].reapedAt = "finish"

\* C17: while isShuttingDown is true every socket left in the table is busy:
\* no registered socket has its idle flag set.
C17_DrainingRegistryBusy ==
    isShuttingDown => \A s \in connections : ~sockets[s].isIdle

\* C17 witness: after a sweep that reaped an idle socket, a busy socket is
\* still registered.
C17_Witness ==
    /\ isShuttingDown
    /\ \E s \in SocketIds : sockets[s].reapedAt = "sweep"
    /\ \E s \in connections :
          ~sockets[s].isIdle /\ sockets[s].inflight > 0

\* C18: the counter reported by the sweep as connections destroyed equals
\* the number of sockets the sweep destroyed.
C18_CounterIsDestroyed ==
    sweeps = 1 =>
       counter = Cardinality({s \in SocketIds : sockets[s].reapedAt = "sweep"})

====
